---- MODULE Spec2Model ----
(***************************************************************************)
(* A model of the two transformers of ts_features:                         *)
(*   Lag               (target_based/lag.py)                               *)
(*   DateTimeFeatures  (datetime_features/dt_features.py)                  *)
(* A table is a pandas DataFrame: an index (row labels), an ordered list   *)
(* of column names, and per column a dtype and one value per row.  Both    *)
(* transformers mutate the table they are handed and return it.            *)
(***************************************************************************)
EXTENDS Integers, Sequences, FiniteSets, TLC

VARIABLES lag, X, out, dtf, D, dout

vars == <<lag, X, out, dtf, D, dout>>

(***************************************************************************)
(* Bounds of the model.                                                    *)
(***************************************************************************)
MaxRows == 2
MaxPeriods == 2
MaxTransforms == 2
MaxExcluded == 2

(***************************************************************************)
(* Optional values and missing cells.  None / NaN is the empty tuple, a    *)
(* present value v is the one-element tuple <<v>>.                         *)
(***************************************************************************)
None == << >>
Some(v) == <<v>>
NA == << >>
Val(v) == <<v>>

Range(s) == {s[i] : i \in 1..Len(s)}

(***************************************************************************)
(* Tables.                                                                 *)
(***************************************************************************)
Column(dtype, values) == [dtype |-> dtype, values |-> values]

RangeIndex(r) == [i \in 1..r |-> i - 1]

Fresh(base, r, naRow) == [i \in 1..r |-> IF i = naRow THEN NA ELSE Val(base + i)]

HasColumn(T, c) == c \in Range(T.columns)

NRows(T) == Len(T.index)

\* X.loc[:, c] of a column the table has
Loc(T, c) == T.data[c]

\* pandas sets a whole existing column in place when the new values fit its
\* dtype (2.x) or replaces it (1.x); a new column takes the dtype of the series
FitsDtype(dtype, values) == dtype = "float64" \/ \A i \in 1..Len(values) : values[i] # NA

SetColumn(T, name, series, inplace) ==
    IF HasColumn(T, name)
    THEN [T EXCEPT !.data[name] =
            Column(IF inplace /\ FitsDtype(T.data[name].dtype, series.values)
                   THEN T.data[name].dtype ELSE series.dtype,
                   series.values)]
    ELSE [T EXCEPT !.columns = Append(T.columns, name),
                   !.data = [c \in DOMAIN T.data \cup {name} |->
                               IF c = name THEN series ELSE T.data[c]]]

\* (faulty variant: only the first label is dropped)
DropFirstColumnOnly(T, cols) ==
    [T EXCEPT !.columns = SelectSeq(T.columns, LAMBDA c : cols = << >> \/ c # cols[1]),
              !.data = [c \in DOMAIN T.data \ {cols[i] : i \in 1..Len(cols) \cap {1}} |->
                          T.data[c]]]

\* DataFrame.drop(columns=...) of labels the table has
DropColumns(T, cols) ==
    [T EXCEPT !.columns = SelectSeq(T.columns, LAMBDA c : c \notin Range(cols)),
              !.data = [c \in DOMAIN T.data \ Range(cols) |-> T.data[c]]]

\* DataFrame.dropna(): the rows with no missing value in any column, labels kept
KeptRows(T) ==
    SelectSeq([i \in 1..NRows(T) |-> i],
              LAMBDA i : \A c \in Range(T.columns) : T.data[c].values[i] # NA)

DropNa(T) ==
    LET rows == KeptRows(T)
    IN  [T EXCEPT !.index = [j \in 1..Len(rows) |-> T.index[rows[j]]],
                  !.data = [c \in DOMAIN T.data |->
                              Column(T.data[c].dtype,
                                     [j \in 1..Len(rows) |-> T.data[c].values[rows[j]]])]]

\* (faulty variant: off by one)
ShiftByOneLess(values, period) ==
    LET n == Len(values)
        p == period - 1
    IN  IF p >= n THEN [i \in 1..n |-> NA]
        ELSE [i \in 1..p |-> NA] \o SubSeq(values, 1, n - p)

\* Series.shift(period), period > 0: positional, the first rows become missing
Shift(values, period) ==
    LET n == Len(values)
    IN  IF period >= n THEN [i \in 1..n |-> NA]
        ELSE [i \in 1..period |-> NA] \o SubSeq(values, 1, n - period)

\* an integer column cannot hold NaN: shifting a non-empty one gives floats
ShiftSeries(col, period) ==
    Column(IF col.dtype = "int64" /\ Len(col.values) > 0 THEN "float64" ELSE col.dtype,
           Shift(col.values, period))

Table(r, columns, data) == [index |-> RangeIndex(r), columns |-> columns, data |-> data]

LagTablesOf(r) ==
    { Table(r, <<"x">>, [c \in {"x"} |-> Column("int64", Fresh(10, r, 0))]),
      Table(r, <<"x", "y">>,
            [c \in {"x", "y"} |-> IF c = "x" THEN Column("int64", Fresh(10, r, 0))
                                  ELSE Column("float64", Fresh(20, r, 1))]),
      Table(r, <<"y", "x">>,
            [c \in {"x", "y"} |-> IF c = "x" THEN Column("float64", Fresh(10, r, 0))
                                  ELSE Column("int64", Fresh(20, r, 0))]),
      Table(r, <<"x", "x_LAG-1">>,
            [c \in {"x", "x_LAG-1"} |->
               IF c = "x" THEN Column("int64", Fresh(10, r, 0))
               ELSE ShiftSeries(Column("int64", Fresh(10, r, 0)), 1)]),
      Table(r, <<"y">>, [c \in {"y"} |-> Column("int64", Fresh(20, r, 0))]) }

LagTables == UNION {LagTablesOf(r) : r \in 0..MaxRows}

NoTable == Table(0, << >>, << >>)

(***************************************************************************)
(* Lag                                                                     *)
(***************************************************************************)
ShiftColumnChoices ==
    {None, Some(<<"x">>), Some(<<"x", "y">>), Some(<<"x", "x_LAG-1">>),
     Some(<<"x_LAG-1", "x">>)}

NoLag ==
    [state |-> "none", n_periods |-> 0, shift_columns |-> None,
     drop_na_rows |-> FALSE, drop_original_columns |-> FALSE,
     only_one_column_for_periods |-> FALSE,
     new_columns |-> << >>, column_dtype_map |-> << >>]

\* a dict keeps its items in insertion order; setting a known key keeps its place
Keys(d) == {d[i].key : i \in 1..Len(d)}

Get(d, k) == d[CHOOSE i \in 1..Len(d) : d[i].key = k].value

\* (faulty variant: a known key keeps its value)
DictSetDefault(d, k, v) ==
    IF k \in Keys(d) THEN d ELSE Append(d, [key |-> k, value |-> v])

DictSet(d, k, v) ==
    IF k \in Keys(d)
    THEN [i \in 1..Len(d) |-> IF d[i].key = k THEN [key |-> k, value |-> v] ELSE d[i]]
    ELSE Append(d, [key |-> k, value |-> v])

\* What the caller has seen: the constructor's arguments, the last call, the
\* error it raised and at which column, the columns it generated (one entry
\* per assignment of a transform), and the transforms made so far.
NoCall ==
    [op |-> "none", args |-> << >>, error |-> "none", column |-> "",
     generated |-> << >>, transforms |-> 0]

Returned(call, op) ==
    [call EXCEPT !.op = op, !.error = "none", !.column = "", !.generated = << >>]

\* (faulty variant: no assertion on n_periods)
NewLagUnchecked(n_periods, shift_columns, drop_na_rows, drop_original_columns, one_col) ==
    [state |-> "ok", n_periods |-> n_periods, shift_columns |-> shift_columns,
     drop_na_rows |-> drop_na_rows, drop_original_columns |-> drop_original_columns,
     only_one_column_for_periods |-> one_col,
     new_columns |-> << >>, column_dtype_map |-> << >>]

\* Lag.__init__
NewLag(n_periods, shift_columns, drop_na_rows, drop_original_columns, one_col) ==
    IF ~(n_periods > 0)
    THEN [NoLag EXCEPT !.state = "AssertionError"]
    ELSE NewLagUnchecked(n_periods, shift_columns, drop_na_rows,
                         drop_original_columns, one_col)

LagName(original_column, k) == original_column \o "_LAG-" \o ToString(k)

\* (faulty variant: the columns are resolved at every fit)
FitAlways(self, T) == [self EXCEPT !.shift_columns = Some(T.columns)]

\* Lag.fit
Fit(self, T) ==
    IF self.shift_columns = None
    THEN [self EXCEPT !.shift_columns = Some(T.columns)]
    ELSE self

\* Lag._generate_lag_column_and_update_dtype_map: the instance afterwards and
\* the series it returns, or the error it raises
GenerateLagColumn(self, T, original_col_name, new_column_name, period) ==
    IF ~(period > 0)
    THEN [self |-> self, error |-> "AssertionError", column |-> "", series |-> None]
    ELSE LET appended == [self EXCEPT !.new_columns = Append(@, new_column_name)]
         IN  IF ~HasColumn(T, original_col_name)
             THEN [self |-> appended, error |-> "KeyError",
                   column |-> original_col_name, series |-> None]
             ELSE [self |-> [appended EXCEPT !.column_dtype_map =
                                DictSet(@, new_column_name, Loc(T, original_col_name).dtype)],
                   error |-> "none", column |-> "",
                   series |-> Some(ShiftSeries(Loc(T, original_col_name), period))]

\* (faulty variant: the flag is ignored)
LagsForEveryPeriod(self) == [k \in 1..self.n_periods |-> k]

\* the periods one source column is shifted by (the two branches of the loop body)
LagsFor(self) ==
    IF self.only_one_column_for_periods = FALSE
    THEN [k \in 1..self.n_periods |-> k]
    ELSE <<self.n_periods>>

\* one X.loc[:, new_column_name] = self._generate_lag_column_and_update_dtype_map(...)
GenerateAndAssign(st, original_column, period, inplace) ==
    LET name == LagName(original_column, period)
        g == GenerateLagColumn(st.self, st.X, original_column, name, period)
    IN  IF g.error # "none"
        THEN [st EXCEPT !.self = g.self, !.error = g.error, !.column = g.column]
        ELSE [st EXCEPT !.self = g.self,
                        !.X = SetColumn(st.X, name, g.series[1], inplace),
                        !.generated = Append(@, [source |-> original_column,
                                                 name |-> name,
                                                 period |-> period,
                                                 original |-> Loc(st.X, original_column),
                                                 series |-> g.series[1]])]

RECURSIVE ShiftColumn(_, _, _, _)
ShiftColumn(st, original_column, lags, inplace) ==
    IF lags = << >> \/ st.error # "none" THEN st
    ELSE ShiftColumn(GenerateAndAssign(st, original_column, Head(lags), inplace),
                     original_column, Tail(lags), inplace)

RECURSIVE ShiftColumns(_, _, _)
ShiftColumns(st, columns, inplace) ==
    IF columns = << >> \/ st.error # "none" THEN st
    ELSE ShiftColumns(ShiftColumn(st, Head(columns), LagsFor(st.self), inplace),
                      Tail(columns), inplace)

\* Lag._cast_cols_dtypes_to_original
RECURSIVE CastItems(_, _)
CastItems(st, items) ==
    IF items = << >> \/ st.error # "none" THEN st
    ELSE LET col == Head(items).key
             type == Head(items).value
         IN  IF ~HasColumn(st.X, col)
             THEN [st EXCEPT !.error = "KeyError", !.column = col]
             ELSE IF type = "int64" /\ ~FitsDtype(type, Loc(st.X, col).values)
             THEN [st EXCEPT !.error = "ValueError", !.column = col]
             ELSE CastItems([st EXCEPT !.X.data[col].dtype = type], Tail(items))

\* (faulty variant: the dtypes are left as the shift made them)
CastNothing(st) == st

CastColsDtypesToOriginal(st) == CastItems(st, st.self.column_dtype_map)

DropNaAndCast(st) ==
    IF st.self.drop_na_rows = TRUE
    THEN CastColsDtypesToOriginal([st EXCEPT !.X = DropNa(st.X)])
    ELSE st

DropOriginalColumns(st) ==
    IF st.self.drop_original_columns
    THEN IF \A c \in Range(st.self.shift_columns[1]) : HasColumn(st.X, c)
         THEN [st EXCEPT !.X = DropColumns(st.X, st.self.shift_columns[1])]
         ELSE [st EXCEPT !.error = "KeyError",
                         !.column = CHOOSE c \in Range(st.self.shift_columns[1]) :
                                       ~HasColumn(st.X, c)]
    ELSE st

\* (faulty variant: the rows are dropped even when the loop raised)
TransformThenCleanUp(self, T, inplace) ==
    LET st0 == [self |-> self, X |-> T, error |-> "none", column |-> "",
                generated |-> << >>]
    IN  IF self.shift_columns = None
        THEN [st0 EXCEPT !.error = "TypeError"]
        ELSE LET st1 == ShiftColumns(st0, self.shift_columns[1], inplace)
                 st2 == IF self.drop_na_rows THEN [st1 EXCEPT !.X = DropNa(st1.X)] ELSE st1
             IN  IF st2.error = "none" THEN DropOriginalColumns(DropNaAndCast(st2)) ELSE st2

\* Lag.transform: the instance, the table and the outcome of the call
Transform(self, T, inplace) ==
    LET st0 == [self |-> self, X |-> T, error |-> "none", column |-> "",
                generated |-> << >>]
    IN  IF self.shift_columns = None
        THEN [st0 EXCEPT !.error = "TypeError"]
        ELSE LET st1 == ShiftColumns(st0, self.shift_columns[1], inplace)
                 st2 == IF st1.error = "none" THEN DropNaAndCast(st1) ELSE st1
             IN  IF st2.error = "none" THEN DropOriginalColumns(st2) ELSE st2

Outcome(call, st) ==
    [call EXCEPT !.op = "transform", !.error = st.error, !.column = st.column,
                 !.generated = st.generated, !.transforms = @ + 1]

(***************************************************************************)
(* The calls a user of one Lag instance makes.                             *)
(***************************************************************************)
LagInit ==
    /\ lag.state = "none" /\ dtf.state = "none"
    /\ \E n \in -1..MaxPeriods, cols \in ShiftColumnChoices,
          na \in BOOLEAN, orig \in BOOLEAN, one \in BOOLEAN, T \in LagTables :
          /\ lag' = NewLag(n, cols, na, orig, one)
          /\ X' = T
          /\ out' = [NoCall EXCEPT !.op = "init", !.args = <<n, cols>>,
                                    !.error = IF NewLag(n, cols, na, orig, one).state = "ok"
                                              THEN "none"
                                              ELSE NewLag(n, cols, na, orig, one).state]
    /\ UNCHANGED <<dtf, D, dout>>

LagFit ==
    /\ lag.state = "ok"
    /\ lag' = Fit(lag, X)
    /\ out' = Returned(out, "fit")
    /\ UNCHANGED <<X, dtf, D, dout>>

LagTransform ==
    /\ lag.state = "ok"
    /\ out.transforms < MaxTransforms
    /\ \E inplace \in BOOLEAN :
          LET st == Transform(lag, X, inplace)
          IN  /\ lag' = st.self
              /\ X' = st.X
              /\ out' = Outcome(out, st)
    /\ UNCHANGED <<dtf, D, dout>>

\* the caller hands the instance another table
LagNewTable ==
    /\ lag.state = "ok"
    /\ \E T \in LagTables : X' = T
    /\ out' = Returned(out, "table")
    /\ UNCHANGED <<lag, dtf, D, dout>>

(***************************************************************************)
(* DateTimeFeatures                                                        *)
(***************************************************************************)
Item(k, v) == [key |-> k, value |-> v]

\* the catalog __init__ builds, in its order
Catalog ==
    << Item("year", "_get_year"), Item("month", "_get_month"),
       Item("day-of-month", "_get_day_of_month"),
       Item("day-of-year", "_get_day_of_year"),
       Item("day-of-week", "_get_day_of_week"),
       Item("is-weekend", "_get_is_weekend"),
       Item("hour", "_get_hour"), Item("minute", "_get_minute"),
       Item("second", "_get_second") >>

\* dict.pop(key) of a key the dict has
Pop(d, k) == SelectSeq(d, LAMBDA it : it.key # k)

NoDtf ==
    [state |-> "none", dt_columns |-> << >>, exclude_features |-> None,
     drop_original_columns |-> FALSE, included_features_and_methods_map |-> << >>]

\* the second loop of handle_excluded_features: pop raises on a key already gone
RECURSIVE PopAll(_, _)
PopAll(self, features_to_pop) ==
    IF features_to_pop = << >> THEN self
    ELSE IF Head(features_to_pop) \notin Keys(self.included_features_and_methods_map)
    THEN [self EXCEPT !.state = "KeyError"]
    ELSE PopAll([self EXCEPT !.included_features_and_methods_map =
                    Pop(@, Head(features_to_pop))],
                Tail(features_to_pop))

\* DateTimeFeatures.handle_excluded_features
HandleExcludedFeatures(self) ==
    IF self.exclude_features = None THEN self
    ELSE IF \E i \in 1..Len(self.exclude_features[1]) :
              self.exclude_features[1][i] \notin Keys(self.included_features_and_methods_map)
    THEN [self EXCEPT !.state = "AssertionError"]
    ELSE PopAll(self, self.exclude_features[1])

\* DateTimeFeatures.__init__
NewDateTimeFeatures(dt_columns, exclude_features, drop_original_columns) ==
    HandleExcludedFeatures(
        [state |-> "ok", dt_columns |-> dt_columns,
         exclude_features |-> exclude_features,
         drop_original_columns |-> drop_original_columns,
         included_features_and_methods_map |-> Catalog])

\* str.upper() on the feature names
Upper(s) ==
    CASE s = "year" -> "YEAR"
      [] s = "month" -> "MONTH"
      [] s = "day-of-month" -> "DAY-OF-MONTH"
      [] s = "day-of-year" -> "DAY-OF-YEAR"
      [] s = "day-of-week" -> "DAY-OF-WEEK"
      [] s = "is-weekend" -> "IS-WEEKEND"
      [] s = "hour" -> "HOUR"
      [] s = "minute" -> "MINUTE"
      [] s = "second" -> "SECOND"

\* DateTimeFeatures._get_new_feature_name
GetNewFeatureName(original_column_name, new_feature_name) ==
    original_column_name \o "_" \o Upper(new_feature_name)

\* DateTimeFeatures._get_is_weekend
GetIsWeekend(dt) ==
    CASE dt.dayofweek = 5 -> TRUE
      [] dt.dayofweek = 6 -> TRUE
      [] OTHER -> FALSE

\* the static _get_* methods, applied to one Timestamp
Apply(method, dt) ==
    CASE method = "_get_year" -> dt.year
      [] method = "_get_month" -> dt.month
      [] method = "_get_day_of_month" -> dt.day
      [] method = "_get_day_of_year" -> dt.dayofyear
      [] method = "_get_day_of_week" -> dt.dayofweek
      [] method = "_get_is_weekend" -> GetIsWeekend(dt)
      [] method = "_get_hour" -> dt.hour
      [] method = "_get_minute" -> dt.minute
      [] method = "_get_second" -> dt.second

\* Series.map(method)
Map(col, method) ==
    Column(IF method = "_get_is_weekend" THEN "bool" ELSE "int64",
           [i \in 1..Len(col.values) |-> Val(Apply(method, col.values[i][1]))])

Timestamp(y, mo, d, doy, dow, h, mi, s) ==
    [year |-> y, month |-> mo, day |-> d, dayofyear |-> doy, dayofweek |-> dow,
     hour |-> h, minute |-> mi, second |-> s]

\* 1994-08-15 00:00:00 is a Monday, 2021-07-24 12:30:45 a Saturday
DtValues(r) ==
    [i \in 1..r |-> IF i = 1 THEN Val(Timestamp(1994, 8, 15, 227, 0, 0, 0, 0))
                    ELSE Val(Timestamp(2021, 7, 24, 205, 5, 12, 30, 44 + i))]

DtTables ==
    { Table(r, cols, [c \in Range(cols) |-> Column("datetime64", DtValues(r))]) :
        r \in 1..MaxRows, cols \in {<<"dt1", "dt2">>, <<"dt2">>} }

DtColumnChoices == {<<"dt1">>, <<"dt1", "dt2">>}

FeatureNames == Keys(Catalog) \cup {"week"}

RECURSIVE SeqsUpTo(_, _)
SeqsUpTo(S, n) ==
    IF n = 0 THEN {<< >>}
    ELSE LET shorter == SeqsUpTo(S, n - 1)
         IN  shorter \cup {Append(s, e) : s \in {t \in shorter : Len(t) = n - 1}, e \in S}

ExcludeChoices == {None} \cup {Some(s) : s \in SeqsUpTo(FeatureNames, MaxExcluded)}

\* the inner loop of DateTimeFeatures.transform for one datetime column
RECURSIVE MapFeatures(_, _, _)
MapFeatures(st, original_column, items) ==
    IF items = << >> \/ st.error # "none" THEN st
    ELSE IF ~HasColumn(st.X, original_column)
    THEN [st EXCEPT !.error = "KeyError", !.column = original_column]
    ELSE LET name == GetNewFeatureName(original_column, Head(items).key)
         IN  MapFeatures(
                [st EXCEPT !.X = SetColumn(st.X, name,
                                           Map(Loc(st.X, original_column), Head(items).value),
                                           FALSE),
                           !.generated = Append(@, [source |-> original_column,
                                                    name |-> name,
                                                    feature |-> Head(items).key])],
                original_column, Tail(items))

RECURSIVE MapColumns(_, _)
MapColumns(st, columns) ==
    IF columns = << >> \/ st.error # "none" THEN st
    ELSE MapColumns(MapFeatures(st, Head(columns),
                                st.self.included_features_and_methods_map),
                    Tail(columns))

\* DateTimeFeatures.transform
DtTransform(self, T) ==
    LET st0 == [self |-> self, X |-> T, error |-> "none", column |-> "",
                generated |-> << >>]
        st1 == MapColumns(st0, self.dt_columns)
    IN  IF st1.error # "none" THEN st1
        ELSE IF self.drop_original_columns = TRUE
        THEN IF \A c \in Range(self.dt_columns) : HasColumn(st1.X, c)
             THEN [st1 EXCEPT !.X = DropColumns(st1.X, self.dt_columns)]
             ELSE [st1 EXCEPT !.error = "KeyError"]
        ELSE st1

DtfInit ==
    /\ dtf.state = "none" /\ lag.state = "none"
    /\ \E cols \in DtColumnChoices, excl \in ExcludeChoices, orig \in BOOLEAN,
          T \in DtTables :
          /\ dtf' = NewDateTimeFeatures(cols, excl, orig)
          /\ D' = T
          /\ dout' = [NoCall EXCEPT !.op = "init", !.args = <<cols, excl>>,
                                     !.error =
                         IF NewDateTimeFeatures(cols, excl, orig).state = "ok"
                         THEN "none" ELSE NewDateTimeFeatures(cols, excl, orig).state]
    /\ UNCHANGED <<lag, X, out>>

\* DateTimeFeatures.fit
DtfFit ==
    /\ dtf.state = "ok"
    /\ dout' = Returned(dout, "fit")
    /\ UNCHANGED <<dtf, D, lag, X, out>>

DtfTransform ==
    /\ dtf.state = "ok"
    /\ dout.transforms < MaxTransforms
    /\ LET st == DtTransform(dtf, D)
       IN  /\ dtf' = st.self
           /\ D' = st.X
           /\ dout' = Outcome(dout, st)
    /\ UNCHANGED <<lag, X, out>>

(***************************************************************************)
(* A run constructs one of the two transformers (they share no state) and  *)
(* then calls it.                                                          *)
(***************************************************************************)
Init ==
    /\ lag = NoLag /\ X = NoTable /\ out = NoCall
    /\ dtf = NoDtf /\ D = NoTable /\ dout = NoCall

Next ==
    \/ LagInit
    \/ LagFit
    \/ LagTransform
    \/ LagNewTable
    \/ DtfInit
    \/ DtfFit
    \/ DtfTransform

Spec == Init /\ [][Next]_vars

(***************************************************************************)
(* Properties.                                                             *)
(***************************************************************************)
Names(generated) == [j \in 1..Len(generated) |-> generated[j].name]

\* the entry that assigned a column last in the call
IsLast(generated, j) ==
    \A j2 \in (j + 1)..Len(generated) : generated[j2].name # generated[j].name

TransformReturned == out.op = "transform" /\ out.error = "none"

\* C1: every lag column a transform generates holds, at row i (0-based), the
\* value its source column had at row i-k when i >= k and the missing value
\* when i < k, whatever the table length (k >= length gives an all-missing
\* column, not an error); the table carries that column until rows are dropped.
C1_LagIsShift ==
    out.op = "transform" =>
      \A j \in 1..Len(out.generated) :
        LET g == out.generated[j]
            k == g.period
            n == Len(g.original.values)
        IN  /\ k > 0
            /\ Len(g.series.values) = n
            /\ \A i \in 0..(n - 1) :
                 g.series.values[i + 1] =
                   IF i >= k THEN g.original.values[i - k + 1] ELSE NA
            /\ (IsLast(out.generated, j) /\ HasColumn(X, g.name)
                   /\ (out.error # "none" \/ ~lag.drop_na_rows))
                 => X.data[g.name].values = g.series.values

C1_Witness ==
    /\ TransformReturned /\ ~lag.drop_na_rows /\ NRows(X) = 2
    /\ \E j1, j2 \in 1..Len(out.generated) :
         /\ out.generated[j1].period = 1
         /\ X.data[out.generated[j1].name].values[2] = out.generated[j1].original.values[1]
         /\ X.data[out.generated[j1].name].values[2] # NA
         /\ out.generated[j2].period = 2
         /\ X.data[out.generated[j2].name].values = <<NA, NA>>

\* C2: a transform that returns generates, for each configured source column
\* c in order and with periods = n, the n columns c_LAG-1 .. c_LAG-n shifted by
\* 1 .. n when generate_one_col_pro_period is false, and the one column
\* c_LAG-n shifted by n when it is true.
C2_ColumnsPerSource ==
    TransformReturned =>
      LET cols == lag.shift_columns[1]
          n == lag.n_periods
          per == IF lag.only_one_column_for_periods THEN 1 ELSE n
      IN  /\ Len(out.generated) = Len(cols) * per
          /\ \A p \in 1..Len(cols) : \A q \in 1..per :
               LET g == out.generated[(p - 1) * per + q]
                   k == IF lag.only_one_column_for_periods THEN n ELSE q
               IN  /\ g.source = cols[p]
                   /\ g.period = k
                   /\ g.name = cols[p] \o "_LAG-" \o ToString(k)
                   /\ (~lag.drop_original_columns \/ g.name \notin Range(cols))
                        => HasColumn(X, g.name)

C2_Witness ==
    /\ TransformReturned
    /\ lag.only_one_column_for_periods /\ lag.n_periods = 2
    /\ Names(out.generated) = <<"x_LAG-2", "y_LAG-2">>
    /\ X.columns = <<"x", "y", "x_LAG-2", "y_LAG-2">>

\* C3: after a transform with drop_na_rows = True that returns, no column of
\* the table holds a missing value, and every tracked generated column has the
\* dtype its source column had when it was shifted.
C3_NoMissingAndOriginalDtypes ==
    (TransformReturned /\ lag.drop_na_rows) =>
      /\ \A c \in Range(X.columns) : \A i \in 1..NRows(X) : X.data[c].values[i] # NA
      /\ \A c \in Range(X.columns) : Len(X.data[c].values) = NRows(X)
      /\ \A name \in Keys(lag.column_dtype_map) :
           \E j \in 1..Len(out.generated) :
             /\ out.generated[j].name = name
             /\ IsLast(out.generated, j)
             /\ Get(lag.column_dtype_map, name) = out.generated[j].original.dtype
             /\ HasColumn(X, name) =>
                  X.data[name].dtype = out.generated[j].original.dtype

C3_Witness ==
    /\ TransformReturned /\ lag.drop_na_rows
    /\ NRows(X) = 1 /\ X.index = <<1>>
    /\ \E j \in 1..Len(out.generated) :
         /\ out.generated[j].series.dtype = "float64"
         /\ out.generated[j].original.dtype = "int64"
         /\ HasColumn(X, out.generated[j].name)
         /\ X.data[out.generated[j].name].dtype = "int64"

TransformStep == out'.transforms = out.transforms + 1

\* the names the call generates for the source columns before position p
GeneratedBefore(cols, p) ==
    {cols[q] \o "_LAG-" \o ToString(k) :
       q \in 1..(p - 1),
       k \in IF lag.only_one_column_for_periods THEN {lag.n_periods}
             ELSE 1..lag.n_periods}

\* C4 as claimed: a transform with drop_original_columns = True removes
\* exactly the configured source columns, and every lag column the call
\* generated is still in the returned table.
C4_Original ==
    [][(TransformStep /\ out'.error = "none" /\ lag.drop_original_columns) =>
         /\ Range(X'.columns) =
              (Range(X.columns) \cup Range(Names(out'.generated)))
                 \ Range(lag.shift_columns[1])
         /\ Range(Names(out'.generated)) \subseteq Range(X'.columns)]_vars

\* C4 (amended): a transform with drop_original_columns = True removes
\* exactly the configured source columns and no other column, rows aside; every
\* lag column the call generated whose name is not itself a configured source
\* column is still in the returned table, in the table's order.
C4_DropsExactlySources ==
    [][(TransformStep /\ out'.error = "none" /\ lag.drop_original_columns) =>
         /\ Range(X'.columns) =
              (Range(X.columns) \cup Range(Names(out'.generated)))
                 \ Range(lag.shift_columns[1])
         /\ DOMAIN X'.data = Range(X'.columns)
         /\ X'.columns = SelectSeq(X.columns, LAMBDA c : HasColumn(X', c))
                           \o SelectSeq(X'.columns, LAMBDA c : ~HasColumn(X, c))
         /\ (Range(Names(out'.generated)) \ Range(lag.shift_columns[1]))
              \subseteq Range(X'.columns)]_vars

C4_Witness ==
    /\ TransformReturned /\ lag.drop_original_columns
    /\ lag.shift_columns = Some(<<"x">>) /\ lag.n_periods = 2
    /\ ~lag.only_one_column_for_periods
    /\ X.columns = <<"y", "x_LAG-1", "x_LAG-2">>

CatalogKinds ==
    {"year", "month", "day-of-month", "day-of-year", "day-of-week", "is-weekend",
     "hour", "minute", "second"}

\* C5: the configuration error (AssertionError) is raised exactly by the
\* constructors, Lag's when n_periods <= 0 and DateTimeFeatures' when an
\* excluded name is outside the catalog, with the table untouched; no fit or
\* transform of a constructed instance raises it.
C5_ConfigErrorOnlyAtConstruction ==
    /\ out.op = "init" =>
         /\ out.error = "AssertionError" <=> out.args[1] <= 0
         /\ lag.state = "ok" <=> out.args[1] > 0
    /\ out.op \in {"fit", "table", "transform"} =>
         /\ out.error # "AssertionError"
         /\ lag.state = "ok"
    /\ lag.state = "ok" => lag.n_periods > 0
    /\ dout.op = "init" =>
         /\ dout.error = "AssertionError" <=>
              /\ dout.args[2] # None
              /\ \E i \in 1..Len(dout.args[2][1]) : dout.args[2][1][i] \notin CatalogKinds
         /\ dout.error = "AssertionError" => dtf.state # "ok" /\ D \in DtTables
    /\ dout.op \in {"fit", "transform"} =>
         /\ dout.error # "AssertionError"
         /\ dtf.state = "ok"

C5_Witness ==
    /\ out.op = "init" /\ out.args[1] = 0
    /\ out.error = "AssertionError" /\ lag.state = "AssertionError"
    /\ lag.new_columns = << >> /\ NRows(X) = 2

CatalogOrder ==
    <<"year", "month", "day-of-month", "day-of-year", "day-of-week", "is-weekend",
      "hour", "minute", "second">>

UpperCase ==
    [k \in CatalogKinds |->
       CASE k = "year" -> "YEAR" [] k = "month" -> "MONTH"
         [] k = "day-of-month" -> "DAY-OF-MONTH" [] k = "day-of-year" -> "DAY-OF-YEAR"
         [] k = "day-of-week" -> "DAY-OF-WEEK" [] k = "is-weekend" -> "IS-WEEKEND"
         [] k = "hour" -> "HOUR" [] k = "minute" -> "MINUTE" [] k = "second" -> "SECOND"]

\* C6 as claimed: for every exclusion list whose entries are all catalog keys,
\* repeated or not, construction succeeds, the enabled map is the catalog minus
\* the excluded kinds, in catalog order, and stays so, and a transform that
\* returns generates for each datetime column d one column d_UPPER(k) per
\* enabled kind k, in catalog order.
C6_Claim ==
    (/\ dout.op # "none"
     /\ dout.args[2] # None
     /\ Range(dout.args[2][1]) \subseteq CatalogKinds) =>
      LET enabled == SelectSeq(CatalogOrder, LAMBDA k : k \notin Range(dout.args[2][1]))
      IN  /\ dtf.state = "ok"
          /\ [i \in 1..Len(dtf.included_features_and_methods_map) |->
                dtf.included_features_and_methods_map[i].key] = enabled
          /\ (dout.op = "transform" /\ dout.error = "none") =>
               /\ Len(dout.generated) = Len(dtf.dt_columns) * Len(enabled)
               /\ \A p \in 1..Len(dtf.dt_columns) : \A q \in 1..Len(enabled) :
                    dout.generated[(p - 1) * Len(enabled) + q].name =
                      dtf.dt_columns[p] \o "_" \o UpperCase[enabled[q]]

\* C7: once shift_columns is set, by the constructor or by the first fit, no
\* call changes it; a fit that finds it unset sets it to the column names of
\* the fitted table, in table order, and no other call sets it; a transform
\* generates lag columns of the columns in shift_columns only.
C7_ShiftColumnsCapturedOnce ==
    [][lag.state = "ok" =>
         /\ lag.shift_columns # None => lag'.shift_columns = lag.shift_columns
         /\ (lag.shift_columns = None /\ out'.op = "fit") =>
              lag'.shift_columns = Some(X.columns) /\ X' = X
         /\ (lag.shift_columns = None /\ out'.op # "fit") =>
              lag'.shift_columns = None
         /\ TransformStep =>
              \A j \in 1..Len(out'.generated) :
                /\ out'.generated[j].source \in Range(lag.shift_columns[1])
                /\ out'.generated[j].name \in
                     {c \o "_LAG-" \o ToString(k) :
                        c \in Range(lag.shift_columns[1]), k \in 1..lag.n_periods}]_vars

C7_Witness ==
    /\ out.op = "fit" /\ out.transforms = 1
    /\ lag.shift_columns = Some(<<"y", "x">>)
    /\ X.columns = <<"y", "x", "y_LAG-1", "x_LAG-1">>

\* C8: new_columns and column_dtype_map only grow: no call removes or reorders
\* an entry, a transform appends the name of each column it generates, in
\* order (and nothing else when it returns), the keys of column_dtype_map
\* after a transform are the keys before
\* it and the names of the columns it generated, and the tracked dtype of a
\* generated name, tracked before or not, is the dtype its source column had
\* when it was last shifted; other tracked dtypes are kept.
C8_TrackingAccumulates ==
    [][lag.state = "ok" =>
         LET new == lag.new_columns
             map == lag.column_dtype_map
             gen == out'.generated
         IN  /\ Len(lag'.new_columns) >= Len(new)
             /\ SubSeq(lag'.new_columns, 1, Len(new)) = new
             /\ Len(lag'.column_dtype_map) >= Len(map)
             /\ \A i \in 1..Len(map) : lag'.column_dtype_map[i].key = map[i].key
             /\ IF TransformStep
                THEN /\ Len(lag'.new_columns) >= Len(new) + Len(gen)
                     /\ out'.error = "none" =>
                          Len(lag'.new_columns) = Len(new) + Len(gen)
                     /\ SubSeq(lag'.new_columns, Len(new) + 1, Len(new) + Len(gen))
                          = Names(gen)
                     /\ Keys(lag'.column_dtype_map) = Keys(map) \cup Range(Names(gen))
                     /\ \A j \in 1..Len(gen) :
                          IsLast(gen, j) =>
                            Get(lag'.column_dtype_map, gen[j].name) = gen[j].original.dtype
                     /\ \A k \in Keys(map) \ Range(Names(gen)) :
                          Get(lag'.column_dtype_map, k) = Get(map, k)
                ELSE /\ lag'.new_columns = new
                     /\ lag'.column_dtype_map = map]_vars

C8_Witness ==
    /\ TransformReturned /\ out.transforms = 2
    /\ lag.new_columns = <<"x_LAG-1", "x_LAG-1">>
    /\ lag.column_dtype_map = <<[key |-> "x_LAG-1", value |-> "float64"]>>
    /\ X.columns = <<"y", "x", "x_LAG-1">>

\* the state a transform leaves when it fails at position p of shift_columns:
\* the table widened by the lag columns of the source columns before p, and
\* otherwise as it was (no row dropped, no cast, no column removed)
PartiallyWidened(cols, p) ==
    LET per == IF lag.only_one_column_for_periods THEN 1 ELSE lag.n_periods
        gen == out'.generated
    IN  /\ out'.error = "KeyError" /\ out'.column = cols[p]
        /\ Len(gen) = (p - 1) * per
        /\ \A j \in 1..Len(gen) : gen[j].source = cols[((j - 1) \div per) + 1]
        /\ X'.index = X.index
        /\ Range(X'.columns) = Range(X.columns) \cup Range(Names(gen))
        /\ \A c \in Range(X.columns) \ Range(Names(gen)) : X'.data[c] = X.data[c]
        /\ \A j \in 1..Len(gen) :
             IsLast(gen, j) =>
               /\ X'.data[gen[j].name].values = gen[j].series.values
               /\ \/ X'.data[gen[j].name].dtype = gen[j].series.dtype
                  \/ /\ HasColumn(X, gen[j].name)
                     /\ X'.data[gen[j].name].dtype = X.data[gen[j].name].dtype

\* C9 as claimed: a transform of a table that lacks a configured source
\* column fails with KeyError at that column and leaves the table partially
\* widened.
C9_Original ==
    [][(/\ TransformStep
        /\ lag.shift_columns # None
        /\ \E p \in 1..Len(lag.shift_columns[1]) : ~HasColumn(X, lag.shift_columns[1][p])) =>
         LET cols == lag.shift_columns[1]
             p == CHOOSE p \in 1..Len(cols) :
                    /\ ~HasColumn(X, cols[p])
                    /\ \A q \in 1..(p - 1) : HasColumn(X, cols[q])
         IN  PartiallyWidened(cols, p)]_vars

Lacks(cols, p) == ~HasColumn(X, cols[p]) /\ cols[p] \notin GeneratedBefore(cols, p)

\* C9 (amended): a transform of a table that lacks a configured source column
\* which the call does not itself generate before reaching it fails with
\* KeyError at the first such column, and is not transactional: the lag
\* columns generated for the source columns before it stay in the table, no
\* row is dropped, no dtype is cast and no column is removed.
C9_FailsPartiallyWidened ==
    [][(/\ TransformStep
        /\ lag.shift_columns # None
        /\ \E p \in 1..Len(lag.shift_columns[1]) : Lacks(lag.shift_columns[1], p)) =>
         LET cols == lag.shift_columns[1]
             p == CHOOSE p \in 1..Len(cols) :
                    /\ Lacks(cols, p)
                    /\ \A q \in 1..(p - 1) : ~Lacks(cols, q)
         IN  PartiallyWidened(cols, p)]_vars

C9_Witness ==
    /\ out.op = "transform" /\ out.error = "KeyError" /\ out.column = "y"
    /\ lag.drop_na_rows /\ lag.drop_original_columns
    /\ X.columns = <<"x", "x_LAG-1">>
    /\ X.data["x_LAG-1"].values = <<NA, Val(11)>>
    /\ X.data["x_LAG-1"].dtype = "float64"

\* C10 as claimed: in every reachable state of a Lag instance the names in
\* new_columns are exactly the keys of column_dtype_map.
C10_Claim ==
    lag.state = "ok" => Range(lag.new_columns) = Keys(lag.column_dtype_map)

====
